---- MODULE Spec2Model ----
(***************************************************************************)
(* A model of jhsiao/importutils.py: Condition / IsSubclass, the module    *)
(* enumerator _itermodules (pkgutil.walk_packages with an os.listdir       *)
(* fallback), the generator find and the resolver get.                     *)
(*                                                                         *)
(* Python strings are sequences of one-character strings, so that          *)
(* startswith, split, rsplit, splitext and join are computed, not assumed. *)
(* A filesystem path is the sequence of its components (each a string);    *)
(* such a path is absolute and normalised by construction, which is what   *)
(* os.path.abspath(os.path.normpath(path)) (line 102) produces.            *)
(***************************************************************************)
EXTENDS Integers, Sequences, FiniteSets, TLC

VARIABLES
    \* ---- inputs of one find() call and its environment (fixed by Init) ----
    files,      \* the regular files of the filesystem (set of paths)
    dirs,       \* the directories of the filesystem (set of paths)
    listrev,    \* os.listdir order: FALSE ascending, TRUE descending
    raises,     \* what executing a unit's code raises: unit -> exception or "none"
    failAt,     \* the primary strategy is forced to raise after this many names (-1: never)
    paths0,     \* find's argument paths: [isstr |-> BOOLEAN, val |-> a path or a list]
    cond,       \* find's argument condition
    prefix0,    \* find's argument prefix
    \* ---- the generator find ----
    fpc,        \* position of find
    fprefix,    \* find's local prefix
    modname,    \* find's local name (the unit being processed)
    keys,       \* find's local keys
    ki,         \* number of keys already processed
    \* ---- the generator _itermodules ----
    epc,        \* position of _itermodules
    econd,      \* _itermodules' local condition (after getattr checkmod)
    ppos,       \* number of walk_packages events already performed
    nprim,      \* number of names the primary strategy has yielded
    queue,      \* the fallback's deque of <<prefix, path>>
    curprefix,  \* the fallback's local prefix
    curpath,    \* the fallback's local path
    listing,    \* the entries of os.listdir(path) not yet visited
    \* ---- observations ----
    names,      \* the names _itermodules has yielded, in order
    attempts,   \* the names find has passed to import_module, in order
    loaded,     \* those of them that loaded, in order
    out,        \* the results find has yielded: <<unit, k, thing>>
    work,       \* every directory listing and unit load performed, in order
    pulls,      \* number of next() calls of the consumer
    closed,     \* the consumer has closed the generator
    error,      \* the exception that left find, or "none"
    switches,   \* number of times the except clause of line 94 was entered
    \* ---- one get() call ----
    gspec, gtable, gpc, gparts, gmodname, gitem, gnames, gi, glookups, gresult, gerror,
    \* ---- one IsSubclass(base)(modname, name, thing) call ----
    cbase, cname, cthing, cpc, cresult

findInputs == <<files, dirs, listrev, raises, failAt, paths0, cond, prefix0>>
findLocals == <<fpc, fprefix, modname, keys, ki>>
enumLocals == <<epc, econd, ppos, nprim, queue, curprefix, curpath, listing>>
findObs    == <<names, attempts, loaded, out, work, pulls, closed, error, switches>>
findVars   == <<findInputs, findLocals, enumLocals, findObs>>
getVars    == <<gspec, gtable, gpc, gparts, gmodname, gitem, gnames, gi, glookups,
                gresult, gerror>>
condVars   == <<cbase, cname, cthing, cpc, cresult>>
vars       == <<findVars, getVars, condVars>>

-----------------------------------------------------------------------------
(* Bounds of the model. *)

\* The forced failure of the primary strategy happens after 0..MaxFail names.
MaxFail == 1
\* The longest spec string given to get.
MaxSpecLen == 5

-----------------------------------------------------------------------------
(* Python str operations. *)

\* s.startswith(p)
startswith(s, p) == Len(s) >= Len(p) /\ SubSeq(s, 1, Len(p)) = p

\* s.endswith(p)
endswith(s, p) == Len(s) >= Len(p) /\ SubSeq(s, Len(s) - Len(p) + 1, Len(s)) = p

\* The positions of character c in s.
Positions(s, c) == {i \in 1..Len(s) : s[i] = c}

Max(S) == CHOOSE x \in S : \A y \in S : y <= x
Min(S) == CHOOSE x \in S : \A y \in S : x <= y

\* s.split(c): every occurrence of c separates two (possibly empty) parts.
RECURSIVE split(_, _)
split(s, c) ==
    IF Positions(s, c) = {} THEN <<s>>
    ELSE LET i == Min(Positions(s, c))
         IN  <<SubSeq(s, 1, i - 1)>> \o split(SubSeq(s, i + 1, Len(s)), c)

\* s.split(c, 1): only the first occurrence of c separates.
split1(s, c) ==
    IF Positions(s, c) = {} THEN <<s>>
    ELSE LET i == Min(Positions(s, c))
         IN  <<SubSeq(s, 1, i - 1), SubSeq(s, i + 1, Len(s))>>

\* s.rsplit('.', 1)[-1]: what follows the last '.', or all of s.
rsplitLast(s) ==
    IF Positions(s, ".") = {} THEN s
    ELSE SubSeq(s, Max(Positions(s, ".")) + 1, Len(s))

\* c.join(parts)
RECURSIVE join(_, _)
join(c, parts) ==
    IF parts = <<>> THEN <<>>
    ELSE IF Len(parts) = 1 THEN parts[1]
    ELSE parts[1] \o <<c>> \o join(c, Tail(parts))

\* os.path.splitext(fname): the extension starts at the last '.', unless only
\* dots precede it.
splitext(fname) ==
    LET dots == Positions(fname, ".")
        i    == Max(dots)
    IN  IF dots = {} \/ \A j \in 1..(i - 1) : fname[j] = "."
        THEN <<fname, <<>>>>
        ELSE <<SubSeq(fname, 1, i - 1), SubSeq(fname, i, Len(fname))>>

-----------------------------------------------------------------------------
(* The filesystem: one search root R with the entries below it. *)

R       == <<"R">>
a_py    == <<"a", ".", "p", "y">>
b_pyc   == <<"b", ".", "p", "y", "c">>
a_pyc   == <<"a", ".", "p", "y", "c">>
h_py    == <<"_", "h", ".", "p", "y">>
n_txt   == <<"n", ".", "t", "x", "t">>
p_dir   == <<"p">>
init_py == <<"_", "_", "i", "n", "i", "t", "_", "_", ".", "p", "y">>
c_py    == <<"c", ".", "p", "y">>

\* Every file name of the model, in ascending (ASCII) order.
AllNames == <<init_py, h_py, a_py, a_pyc, b_pyc, c_py, n_txt, p_dir>>

\* os.path.join(path, fname)
pathjoin(path, fname) == Append(path, fname)

\* os.path.dirname(path)
dirname(path) == SubSeq(path, 1, Len(path) - 1)

\* os.path.isfile / os.path.isdir
isfile(path) == path \in files
isdir(path)  == path \in dirs

Reverse(s) == [i \in 1..Len(s) |-> s[Len(s) + 1 - i]]

\* The entries of directory path, in ascending order.
SortedEntries(path) ==
    LET present(f) == isfile(pathjoin(path, f)) \/ isdir(pathjoin(path, f))
    IN  SelectSeq(AllNames, present)

\* os.listdir(path): the entries in an order the platform chooses.
listdir(path) ==
    IF listrev THEN Reverse(SortedEntries(path)) ELSE SortedEntries(path)

-----------------------------------------------------------------------------
(* Python values, calls and exceptions. *)

\* The result of a call: a returned value, or a raised exception.
Ret(v)   == [exc |-> "none", val |-> v]
Raise(e) == [exc |-> e, val |-> FALSE]

\* The exceptions of the model. GeneratorExit derives from BaseException only;
\* the others derive from Exception.
Exceptions == {"ImportError", "ValueError", "TypeError", "AttributeError",
               "GeneratorExit"}

\* A variant of the except clauses that catches everything (a bare "except:").
exceptAnything(e) == TRUE

\* Whether the clause "except Exception:" (lines 65, 94, 133, 145) catches e.
exceptException(e) == e \in Exceptions \ {"GeneratorExit"}

\* The objects found in modules: three ordinary classes (Sub derives from
\* Base), a class Picky whose metaclass makes issubclass(x, Picky) raise, and
\* two objects that are not classes.
Types  == {"Base", "Sub", "Other", "Picky"}
Values == Types \cup {"Int1", "Str1"}

\* isinstance(thing, type)
isinstance_type(thing) == thing \in Types

\* issubclass(thing, base)
issubclass(thing, base) ==
    IF thing \notin Types \/ base \notin Types THEN Raise("TypeError")
    ELSE IF base = "Picky" THEN Raise("ValueError")
    ELSE Ret(thing = base \/ (thing = "Sub" /\ base = "Base"))

-----------------------------------------------------------------------------
(* class Condition, class IsSubclass. *)

\* sys.version_info.major of the interpreter.
version_info_major == 3

\* Condition.is_module(fullpath); fullpath[:-1] drops the last character.
is_module(fullpath) ==
    LET fname == fullpath[Len(fullpath)]
        chop  == pathjoin(dirname(fullpath), SubSeq(fname, 1, Len(fname) - 1))
    IN  /\ isfile(fullpath)
        /\ \/ endswith(fname, <<".", "p", "y">>)
           \/ (endswith(fname, <<".", "p", "y", "c">>) /\ ~isfile(chop))

\* Condition.is_package(fullpath); major > 3.3 is compared in tenths.
is_package(fullpath) ==
    /\ isdir(fullpath)
    /\ \/ isfile(pathjoin(fullpath, init_py))
       \/ version_info_major * 10 > 33

\* Condition.importable(fullpath)
importable(fullpath) == is_module(fullpath) \/ is_package(fullpath)

\* Condition.checkmod(module, fullpath)
checkmod(module, fullpath) ==
    /\ ~startswith(rsplitLast(module), <<"_">>)
    /\ importable(fullpath)

\* Condition.__call__(package, name, thing)
Condition_call(package, name, thing) == ~startswith(name, <<"_">>)

\* IsSubclass(base).__call__(modname, name, thing): "and" evaluates issubclass
\* only when isinstance holds; the except clause turns an error into False.
IsSubclass_call(base, mname, name, thing) ==
    IF ~isinstance_type(thing) THEN Ret(FALSE)
    ELSE LET r == issubclass(thing, base)
         IN  IF r.exc # "none" /\ exceptException(r.exc) THEN Ret(FALSE) ELSE r

\* The condition arguments of the model: Condition(), IsSubclass(Base), and
\* two bare callables without a checkmod attribute:
\*   BareIssub == lambda modname, name, thing: issubclass(thing, Base)
\*   BareAny   == lambda *args: True
Conditions == {"Condition", "IsSubclass", "BareIssub", "BareAny"}

\* hasattr(condition, 'checkmod')
has_checkmod(c) == c \in {"Condition", "IsSubclass"}

\* condition(name, k, thing), the call of line 143.
call3(c, mname, k, thing) ==
    CASE c = "Condition"  -> Ret(Condition_call(mname, k, thing))
      [] c = "IsSubclass" -> IsSubclass_call("Base", mname, k, thing)
      [] c = "BareIssub"  -> issubclass(thing, "Base")
      [] c = "BareAny"    -> Ret(TRUE)

\* condition(candidate, fullpath), the call of line 109, where condition is
\* the checkmod found at line 87 or else the caller's object itself.
call2(c, candidate, fullpath) ==
    CASE c = "checkmod"   -> Ret(checkmod(candidate, fullpath))
      [] c = "BareIssub"  -> Raise("TypeError")
      [] c = "BareAny"    -> Ret(TRUE)

-----------------------------------------------------------------------------
(* The dynamic-loading collaborator: the units below the root and what     *)
(* import_module, module.__all__, dir(module) and getattr give for them.   *)

Root == <<R>>

U_a     == <<"a">>
U_b     == <<"b">>
U_h     == <<"_", "h">>
U_p     == <<"p">>
U_pc    == <<"p", ".", "c">>
U_pinit == <<"p", ".", "_", "_", "i", "n", "i", "t", "_", "_">>

Units == {U_a, U_b, U_h, U_p, U_pc, U_pinit}

\* The units whose code may raise when it is executed.
RaisingUnits == {U_p}

k_K == <<"K">>
k_P == <<"_", "P">>
k_x == <<"x">>
k_z == <<"z">>

\* The dotted name of the package whose directory is the root, with a
\* trailing '.', or '' when the root is a top-level directory.
pkgprefix ==
    IF prefix0 = <<>> \/ endswith(prefix0, <<".">>) THEN prefix0
    ELSE prefix0 \o <<".">>

\* The unit a dotted name denotes (the name without the root's package).
local(name) ==
    IF startswith(name, pkgprefix) THEN SubSeq(name, Len(pkgprefix) + 1, Len(name))
    ELSE <<>>

\* Whether the unit is present in the filesystem. A directory without
\* __init__.py is importable as a namespace package.
exists(u) ==
    CASE u = U_a     -> isfile(<<R, a_py>>)
      [] u = U_b     -> isfile(<<R, b_pyc>>)
      [] u = U_h     -> isfile(<<R, h_py>>)
      [] u = U_p     -> isdir(<<R, p_dir>>)
      [] u = U_pc    -> isfile(<<R, p_dir, c_py>>)
      [] u = U_pinit -> isfile(<<R, p_dir, init_py>>)
      [] OTHER       -> FALSE

\* What executing the code of unit u raises ("none": nothing). A package
\* without __init__.py has no code.
runs(u) ==
    IF u \notin RaisingUnits THEN "none"
    ELSE IF u = U_p /\ ~isfile(<<R, p_dir, init_py>>) THEN "none"
    ELSE raises[u]

\* import_module(name): "none" when the unit loads, else the exception. The
\* parent package of a submodule is imported first.
import_module(name) ==
    LET u == local(name)
    IN  IF ~exists(u) THEN "ImportError"
        ELSE IF u \in {U_pc, U_pinit} /\ runs(U_p) # "none" THEN runs(U_p)
        ELSE IF u = U_pinit THEN runs(U_p)
        ELSE runs(u)

\* module.__all__ of a loaded unit: <<TRUE, keys>>, or <<FALSE, <<>>>> when
\* the access raises AttributeError.
module_all(u) ==
    CASE u = U_b                                -> <<TRUE, <<k_x, k_z, k_K>>>>
      [] u \in {U_p, U_pinit} /\ exists(U_pinit) -> <<TRUE, <<k_P, k_K>>>>
      [] OTHER                                   -> <<FALSE, <<>>>>

\* dir(module) of a loaded unit (sorted, as dir sorts).
module_dir(u) ==
    CASE u = U_a  -> <<k_K, k_P, k_x>>
      [] u = U_b  -> <<k_K, k_P, k_x>>
      [] u = U_h  -> <<k_K>>
      [] u = U_pc -> <<k_x>>
      [] u \in {U_p, U_pinit} /\ exists(U_pinit) -> <<k_K, k_P>>
      [] OTHER    -> <<>>

\* getattr(module, k): the stored value, or AttributeError.
getattr(u, k) ==
    CASE u = U_a /\ k = k_K -> Ret("Sub")
      [] u = U_a /\ k = k_P -> Ret("Sub")
      [] u = U_a /\ k = k_x -> Ret("Int1")
      [] u = U_b /\ k = k_K -> Ret("Other")
      [] u = U_b /\ k = k_P -> Ret("Base")
      [] u = U_b /\ k = k_x -> Ret("Int1")
      [] u = U_h /\ k = k_K -> Ret("Sub")
      [] u = U_pc /\ k = k_x -> Ret("Str1")
      [] u \in {U_p, U_pinit} /\ exists(U_pinit) /\ k = k_K -> Ret("Base")
      [] u \in {U_p, U_pinit} /\ exists(U_pinit) /\ k = k_P -> Ret("Sub")
      [] OTHER -> Raise("AttributeError")

-----------------------------------------------------------------------------
(* pkgutil.walk_packages(dnames, prefix), the primary strategy of line 92, *)
(* as the sequence of the steps it performs when it is iterated: it lists  *)
(* a directory (sorted), yields each module or package found there, and    *)
(* after yielding a package imports it and walks the package's directory.  *)
(* An ImportError of that import is swallowed; any other exception leaves  *)
(* walk_packages.                                                          *)

\* inspect.getmodulename(fn): fn without its module suffix, or '' (None).
getmodulename(fn) ==
    IF endswith(fn, <<".", "p", "y", "c">>) THEN SubSeq(fn, 1, Len(fn) - 4)
    ELSE IF endswith(fn, <<".", "p", "y">>) THEN SubSeq(fn, 1, Len(fn) - 3)
    ELSE <<>>

Range(s) == {s[i] : i \in 1..Len(s)}

\* pkgutil.iter_modules over the sorted file names fns of directory dir.
RECURSIVE iter_modules(_, _, _, _)
iter_modules(dir, prefix, fns, yielded) ==
    IF fns = <<>> THEN <<>>
    ELSE LET fn    == Head(fns)
             m0    == getmodulename(fn)
             path  == pathjoin(dir, fn)
             aspkg == m0 = <<>> /\ isdir(path) /\ Positions(fn, ".") = {}
             init  == \E f \in Range(SortedEntries(path)) :
                          getmodulename(f) = splitext(init_py)[1]
             mname == IF aspkg THEN fn ELSE m0
             skip  == \/ m0 = splitext(init_py)[1]
                      \/ m0 \in yielded
                      \/ (aspkg /\ ~init)
                      \/ mname = <<>>
                      \/ Positions(mname, ".") # {}
         IN  IF skip THEN iter_modules(dir, prefix, Tail(fns), yielded)
             ELSE <<[name |-> prefix \o mname, ispkg |-> aspkg, path |-> path]>>
                  \o iter_modules(dir, prefix, Tail(fns), yielded \cup {mname})

RECURSIVE walk_packages(_, _)
RECURSIVE walk_infos(_)
walk_infos(infos) ==
    IF infos = <<>> THEN <<>>
    ELSE LET i == Head(infos)
             e == import_module(i.name)
         IN  <<[t |-> "yield", name |-> i.name, path |-> i.path, exc |-> "none"]>>
             \o (IF ~i.ispkg THEN <<>>
                 ELSE <<[t |-> "import", name |-> i.name, path |-> i.path, exc |-> e]>>
                      \o (IF e = "none" THEN walk_packages(i.path, i.name \o <<".">>)
                          ELSE <<>>))
             \o walk_infos(Tail(infos))

walk_packages(dir, prefix) ==
    <<[t |-> "list", name |-> <<>>, path |-> dir, exc |-> "none"]>>
    \o walk_infos(iter_modules(dir, prefix, SortedEntries(dir), {}))

-----------------------------------------------------------------------------
(* One call find(paths0, cond, prefix0), iterated by a consumer.           *)

None == <<>>

\* The filesystems of the model: a.py, a.pyc and b.pyc are always there; _h.py,
\* n.txt and the directory p (holding c.py, with or without __init__.py) may be.
TreeFiles(hasH, hasN, p) ==
    {<<R, a_py>>, <<R, a_pyc>>, <<R, b_pyc>>}
    \cup (IF hasH THEN {<<R, h_py>>} ELSE {})
    \cup (IF hasN THEN {<<R, n_txt>>} ELSE {})
    \cup (IF p # "absent" THEN {<<R, p_dir, c_py>>} ELSE {})
    \cup (IF p = "package" THEN {<<R, p_dir, init_py>>} ELSE {})

TreeDirs(p) == {Root} \cup (IF p # "absent" THEN {<<R, p_dir>>} ELSE {})

FindInit ==
    /\ \E hasH \in BOOLEAN, hasN \in BOOLEAN, p \in {"absent", "plain", "package"} :
           /\ files = TreeFiles(hasH, hasN, p)
           /\ dirs = TreeDirs(p)
    /\ listrev \in BOOLEAN
    /\ raises \in [RaisingUnits -> {"none", "ImportError", "ValueError"}]
    /\ failAt \in -1..MaxFail
    /\ paths0 \in {[isstr |-> TRUE, val |-> Root],
                   [isstr |-> FALSE, val |-> <<(<<R, a_py>>)>>]}
    /\ cond \in Conditions
    /\ prefix0 \in {<<>>, <<"q">>}
    /\ fpc = "new" /\ fprefix = None /\ modname = None /\ keys = <<>> /\ ki = 0
    /\ epc = "new" /\ econd = None /\ ppos = 0 /\ nprim = 0
    /\ queue = <<>> /\ curprefix = None /\ curpath = None /\ listing = <<>>
    /\ names = <<>> /\ attempts = <<>> /\ loaded = <<>> /\ out = <<>>
    /\ work = <<>> /\ pulls = 0 /\ closed = FALSE /\ error = "none"
    /\ switches = 0

\* Lines 84-85: a str is wrapped into a list.
pathlist(paths) == IF paths.isstr THEN <<paths.val>> ELSE paths.val

\* Line 91: dnames.
dnames(paths) ==
    [i \in 1..Len(paths) |-> IF isfile(paths[i]) THEN dirname(paths[i]) ELSE paths[i]]

\* Line 92: the steps of pkgutil.walk_packages(dnames, prefix) (one root).
primary(paths, prefix) == walk_packages(dnames(paths)[1], prefix)

\* A variant of line 99 that drops the prefix.
fallback_queue_bare(paths, prefix) == [i \in 1..Len(paths) |-> <<<<>>, paths[i]>>]

\* Line 99: the fallback's deque.
fallback_queue(paths, prefix) == [i \in 1..Len(paths) |-> <<prefix, paths[i]>>]

\* Lines 128-129: the prefix ends with '.' unless it is empty.
normprefix(prefix) ==
    IF prefix # <<>> /\ ~endswith(prefix, <<".">>) THEN prefix \o <<".">> ELSE prefix

\* The consumer calls next() on the generator find returned.
Pull ==
    /\ fpc \in {"new", "yielded"} /\ ~closed
    /\ pulls' = pulls + 1
    /\ fpc' = IF fpc = "new" THEN "begin" ELSE "keys"
    /\ UNCHANGED <<getVars, condVars>>
    /\ UNCHANGED <<findInputs, fprefix, modname, keys, ki, enumLocals,
                   names, attempts, loaded, out, work, closed, error, switches>>

\* The consumer stops: the generator is closed (GeneratorExit is raised at the
\* yield of line 144, inside the try of line 141; a generator that was never
\* started is just marked closed). When find ends, _itermodules is closed too.
Close ==
    /\ fpc \in {"new", "yielded"} /\ ~closed
    /\ closed' = TRUE
    /\ LET caught == fpc = "yielded" /\ exceptException("GeneratorExit")
       IN  /\ fpc' = IF caught THEN "keys" ELSE "closed"
           /\ epc' = IF caught THEN epc ELSE "closed"
    /\ UNCHANGED <<getVars, condVars>>
    /\ UNCHANGED <<findInputs, fprefix, modname, keys, ki, econd, ppos, nprim, queue,
                   curprefix, curpath, listing, names, attempts, loaded, out, work,
                   pulls, error, switches>>

\* Lines 128-130: find normalises the prefix and creates the enumerator.
FindStart ==
    /\ fpc = "begin"
    /\ fprefix' = normprefix(prefix0)
    /\ fpc' = "iter"
    /\ UNCHANGED <<getVars, condVars>>
    /\ UNCHANGED <<findInputs, modname, keys, ki, enumLocals, findObs>>

\* Lines 84-89: the first next() of _itermodules.
EnumStart ==
    /\ fpc = "iter" /\ epc = "new"
    /\ econd' = IF has_checkmod(cond) THEN "checkmod" ELSE cond
    /\ epc' = "primary"
    /\ UNCHANGED <<getVars, condVars>>
    /\ UNCHANGED <<findInputs, findLocals, ppos, nprim, queue, curprefix, curpath,
                   listing, findObs>>

\* Lines 94-99: the except clause switches to the fallback.
ToFallback(exc) ==
    IF exceptException(exc)
    THEN /\ epc' = "fallback"
         /\ queue' = fallback_queue(pathlist(paths0), fprefix)
         /\ switches' = switches + 1
         /\ UNCHANGED <<fpc, error>>
    ELSE /\ epc' = "raised" /\ fpc' = "raised" /\ error' = exc
         /\ UNCHANGED <<queue, switches>>

\* Lines 90-93: one step of the primary strategy.
PrimaryStep ==
    /\ fpc = "iter" /\ epc = "primary"
    /\ LET evs == primary(pathlist(paths0), fprefix)
       IN  IF nprim = failAt
           THEN /\ ToFallback("ValueError")
                /\ UNCHANGED <<modname, ppos, nprim, names, work>>
           ELSE IF ppos = Len(evs)
           THEN /\ epc' = "done" /\ fpc' = "done"
                /\ UNCHANGED <<modname, ppos, nprim, queue, names, work, error,
                               switches>>
           ELSE LET ev == evs[ppos + 1]
                IN  CASE ev.t = "list" ->
                           /\ work' = Append(work, <<"list", ev.path>>)
                           /\ ppos' = ppos + 1
                           /\ UNCHANGED <<fpc, epc, modname, nprim, queue, names, error,
                                          switches>>
                      [] ev.t = "yield" ->
                           /\ names' = Append(names, ev.name)
                           /\ modname' = ev.name
                           /\ nprim' = nprim + 1
                           /\ ppos' = ppos + 1
                           /\ fpc' = "load"
                           /\ UNCHANGED <<epc, queue, work, error, switches>>
                      [] ev.t = "import" ->
                           /\ work' = Append(work, <<"load", ev.name>>)
                           /\ IF ev.exc \in {"none", "ImportError"}
                              THEN /\ ppos' = ppos + 1
                                   /\ UNCHANGED <<fpc, epc, queue, error, switches>>
                              ELSE /\ ToFallback(ev.exc)
                                   /\ UNCHANGED ppos
                           /\ UNCHANGED <<modname, nprim, names>>
    /\ UNCHANGED <<getVars, condVars>>
    /\ UNCHANGED <<findInputs, fprefix, keys, ki, econd, curprefix, curpath, listing,
                   attempts, loaded, out, pulls, closed>>

\* Lines 100-105: the next directory is taken from the deque and listed.
FallbackPop ==
    /\ fpc = "iter" /\ epc = "fallback" /\ listing = <<>>
    /\ IF queue = <<>>
       THEN /\ epc' = "done" /\ fpc' = "done"
            /\ UNCHANGED <<queue, curprefix, curpath, listing, work>>
       ELSE LET path == IF isfile(queue[1][2]) THEN dirname(queue[1][2])
                        ELSE queue[1][2]
            IN  /\ queue' = Tail(queue)
                /\ curprefix' = queue[1][1]
                /\ curpath' = path
                /\ listing' = listdir(path)
                /\ work' = Append(work, <<"list", path>>)
                /\ UNCHANGED <<fpc, epc>>
    /\ UNCHANGED <<getVars, condVars>>
    /\ UNCHANGED <<findInputs, fprefix, modname, keys, ki, econd, ppos, nprim,
                   names, attempts, loaded, out, pulls, closed, error, switches>>

\* Lines 105-112: one entry of the listing.
FallbackEntry ==
    /\ fpc = "iter" /\ epc = "fallback" /\ listing # <<>>
    /\ LET fname     == Head(listing)
           name      == splitext(fname)[1]
           fullpath  == pathjoin(curpath, fname)
           candidate == curprefix \o name
           r         == call2(econd, candidate, fullpath)
       IN  IF r.exc # "none"
           THEN /\ epc' = "raised" /\ fpc' = "raised" /\ error' = r.exc
                /\ UNCHANGED <<modname, queue, listing, names>>
           ELSE /\ listing' = Tail(listing)
                /\ IF r.val
                   THEN /\ names' = Append(names, candidate)
                        /\ modname' = candidate
                        /\ fpc' = "load"
                        /\ queue' = IF isdir(fullpath)
                                    THEN Append(queue, <<candidate \o <<".">>, fullpath>>)
                                    ELSE queue
                   ELSE UNCHANGED <<names, modname, fpc, queue>>
                /\ UNCHANGED <<epc, error>>
    /\ UNCHANGED <<getVars, condVars>>
    /\ UNCHANGED <<findInputs, fprefix, keys, ki, econd, ppos, nprim, curprefix,
                   curpath, attempts, loaded, out, work, pulls, closed, switches>>

\* A variant of lines 136-139 that ignores __all__.
unit_keys_dir(u) == module_dir(u)

\* Lines 136-139: the names find considers in a loaded unit.
unit_keys(u) == IF module_all(u)[1] THEN module_all(u)[2] ELSE module_dir(u)

\* A variant of lines 131-135 without the try: the error leaves find.
load_unhandled(e) == "propagate"

\* Lines 131-135: what find does when import_module raises e: the except
\* clause logs it and continues with the next name.
load_handler(e) == IF exceptException(e) THEN "continue" ELSE "propagate"

\* Lines 131-139: find imports the unit; a failure is logged and skipped.
FindLoad ==
    /\ fpc = "load"
    /\ attempts' = Append(attempts, modname)
    /\ work' = Append(work, <<"load", modname>>)
    /\ LET e == import_module(modname)
       IN  IF e = "none"
           THEN /\ loaded' = Append(loaded, modname)
                /\ keys' = unit_keys(local(modname))
                /\ ki' = 0
                /\ fpc' = "keys"
                /\ UNCHANGED <<epc, error>>
           ELSE IF load_handler(e) = "continue"
           THEN /\ fpc' = "iter"
                /\ UNCHANGED <<loaded, keys, ki, epc, error>>
           ELSE /\ fpc' = "raised" /\ epc' = "closed" /\ error' = e
                /\ UNCHANGED <<loaded, keys, ki>>
    /\ UNCHANGED <<getVars, condVars>>
    /\ UNCHANGED <<findInputs, fprefix, modname, econd, ppos, nprim, queue, curprefix,
                   curpath, listing, names, out, pulls, closed, switches>>

\* Lines 140-146: one name of the unit; an error of the lookup or of the
\* condition is logged and the name skipped.
FindKey ==
    /\ fpc = "keys"
    /\ IF ki = Len(keys)
       THEN /\ fpc' = "iter"
            /\ UNCHANGED <<ki, out>>
       ELSE LET k     == keys[ki + 1]
                thing == getattr(local(modname), k)
                ok    == IF thing.exc = "none"
                         THEN call3(cond, modname, k, thing.val)
                         ELSE thing
            IN  /\ ki' = ki + 1
                /\ IF ok.exc = "none" /\ ok.val
                   THEN /\ out' = Append(out, <<modname, k, thing.val>>)
                        /\ fpc' = "yielded"
                   ELSE UNCHANGED <<fpc, out>>
    /\ UNCHANGED <<getVars, condVars>>
    /\ UNCHANGED <<findInputs, fprefix, modname, keys, enumLocals, names, attempts,
                   loaded, work, pulls, closed, error, switches>>

GetIdle ==
    /\ gspec = None /\ gtable = None /\ gpc = "idle" /\ gparts = <<>>
    /\ gmodname = None /\ gitem = None /\ gnames = <<>> /\ gi = 0
    /\ glookups = <<>> /\ gresult = None /\ gerror = "none"

CondIdle ==
    /\ cbase = None /\ cname = None /\ cthing = None /\ cpc = "idle"
    /\ cresult = None

Init == FindInit /\ GetIdle /\ CondIdle

Next ==
    \/ Pull
    \/ Close
    \/ FindStart
    \/ EnumStart
    \/ PrimaryStep
    \/ FallbackPop
    \/ FallbackEntry
    \/ FindLoad
    \/ FindKey

Spec == Init /\ [][Next]_vars

-----------------------------------------------------------------------------
(* Definitions used to state the properties of find and _itermodules.      *)

IsPrefix(s, t) == Len(s) <= Len(t) /\ SubSeq(t, 1, Len(s)) = s

\* The segments of a dotted name that start with an underscore.
HiddenSegments(name) == {i \in 1..Len(split(name, ".")) :
                             startswith(split(name, ".")[i], <<"_">>)}

\* The pairs a loaded unit contributes, among its first n names: those whose
\* lookup succeeds and that the condition accepts without raising.
RECURSIVE AcceptedUpTo(_, _, _, _)
AcceptedUpTo(name, c, ks, n) ==
    IF n = 0 THEN <<>>
    ELSE LET k == ks[n]
             v == getattr(local(name), k)
             ok == v.exc = "none" /\ call3(c, name, k, v.val).exc = "none"
                   /\ call3(c, name, k, v.val).val
         IN  AcceptedUpTo(name, c, ks, n - 1)
             \o (IF ok THEN <<(<<name, k, v.val>>)>> ELSE <<>>)

\* The names of a unit: its export list if it declares one, else dir().
ExportedNames(u) == IF module_all(u)[1] THEN module_all(u)[2] ELSE module_dir(u)

\* All the pairs a loaded unit contributes.
Accepted(name, c) ==
    AcceptedUpTo(name, c, ExportedNames(local(name)), Len(ExportedNames(local(name))))

\* The contributions of a sequence of loaded units, in order.
RECURSIVE AcceptedOfAll(_, _)
AcceptedOfAll(ns, c) ==
    IF ns = <<>> THEN <<>>
    ELSE Accepted(Head(ns), c) \o AcceptedOfAll(Tail(ns), c)

\* One directory of the breadth-first walk: the names accepted among its
\* entries, the sub-directories to visit later, and whether the path-level
\* predicate raised (which ends the walk).
RECURSIVE Scan(_, _, _, _)
Scan(pre, path, ents, c) ==
    IF ents = <<>> THEN [names |-> <<>>, push |-> <<>>, raised |-> FALSE]
    ELSE LET cand == pre \o splitext(Head(ents))[1]
             full == pathjoin(path, Head(ents))
             r    == call2(c, cand, full)
             rest == Scan(pre, path, Tail(ents), c)
         IN  IF r.exc # "none" THEN [names |-> <<>>, push |-> <<>>, raised |-> TRUE]
             ELSE IF ~r.val THEN rest
             ELSE [names  |-> <<cand>> \o rest.names,
                   push   |-> (IF isdir(full) THEN <<(<<cand \o <<".">>, full>>)>>
                               ELSE <<>>) \o rest.push,
                   raised |-> rest.raised]

\* The names of a complete breadth-first walk from the deque q under the
\* path-level predicate c.
RECURSIVE Walk(_, _)
Walk(q, c) ==
    IF q = <<>> THEN <<>>
    ELSE LET path == IF isfile(q[1][2]) THEN dirname(q[1][2]) ELSE q[1][2]
             s    == Scan(q[1][1], path, listdir(path), c)
         IN  s.names \o (IF s.raised THEN <<>> ELSE Walk(Tail(q) \o s.push, c))

\* The roots and the prefix the caller gave (the prefix as find passes it on).
OriginalQueue ==
    [i \in 1..Len(pathlist(paths0)) |-> <<normprefix(prefix0), pathlist(paths0)[i]>>]

\* The names the primary strategy yields when nothing interrupts it.
PrimaryNames ==
    LET evs == walk_packages(Root, normprefix(prefix0))
        ys  == SelectSeq(evs, LAMBDA e : e.t = "yield")
    IN  [i \in 1..Len(ys) |-> ys[i].name]

\* The path-level predicate _itermodules uses for the caller's condition.
PathPredicate == IF has_checkmod(cond) THEN "checkmod" ELSE cond

\* A tree that holds only standard-extension files and packages.
StandardTree ==
    /\ <<R, n_txt>> \notin files
    /\ <<R, p_dir>> \in dirs => <<R, p_dir, init_py>> \in files

-----------------------------------------------------------------------------
(* Properties of find and _itermodules.                                    *)

\* C1: a candidate whose load raises is skipped by find: it contributes no
\* result and its error does not leave find (find raises only when the
\* enumerator raised); every name enumerated is passed to import_module, in
\* order, so find ends only when the enumerator is exhausted, and the accepted
\* symbols of the units that load, also after a failing one, are all yielded.
C1_FailedLoadSkipped ==
    /\ IsPrefix(attempts, names)
    /\ Len(names) - Len(attempts) = (IF fpc = "load" THEN 1 ELSE 0)
    /\ loaded = SelectSeq(attempts, LAMBDA n : import_module(n) = "none")
    /\ \A i \in 1..Len(out) : import_module(out[i][1]) = "none"
    /\ fpc = "raised" => epc = "raised"
    /\ fpc = "done" => /\ epc = "done"
                       /\ attempts = names
                       /\ out = AcceptedOfAll(loaded, cond)

\* C1 witness: find has ended after a load failed and a unit enumerated after
\* the failing one was loaded and contributed a result.
C1_Witness ==
    /\ fpc = "done"
    /\ \E i \in 1..Len(attempts) :
          /\ import_module(attempts[i]) # "none"
          /\ \E j \in (i + 1)..Len(attempts) :
                /\ import_module(attempts[j]) = "none"
                /\ \E r \in 1..Len(out) : out[r][1] = attempts[j]

\* C2 (as claimed): on a tree of standard-extension files and packages, with
\* the default Condition, the fallback walk run because the primary strategy
\* failed at once yields the same set of names as the primary strategy.
C2_FallbackEqualsPrimary ==
    (/\ fpc = "done" /\ failAt = 0 /\ cond = "Condition" /\ StandardTree
     /\ runs(U_p) = "none")
        => Range(names) = Range(PrimaryNames)

\* C3 (as claimed): under the default Condition no enumerated name has a
\* segment, after the caller's prefix, that starts with an underscore, and no
\* result has an underscore-prefixed symbol name or such a containing module.
C3_NoUnderscoreNames ==
    cond = "Condition" =>
        /\ \A i \in 1..Len(names) : HiddenSegments(local(names[i])) = {}
        /\ \A i \in 1..Len(out) : /\ ~startswith(out[i][2], <<"_">>)
                                  /\ HiddenSegments(local(out[i][1])) = {}

\* C4 (as claimed): with a bare callable as the condition, the path-level
\* decisions of the enumerator are those of the default policy checkmod: the
\* callable is never called on a path (so it cannot raise there), and the names
\* the fallback walk yields are those of a walk under checkmod.
C4_BareCallableSymbolOnly ==
    ~has_checkmod(cond) =>
        /\ error = "none"
        /\ switches = 1 =>
              IsPrefix(SubSeq(names, nprim + 1, Len(names)),
                       Walk(OriginalQueue, "checkmod"))

\* C8: find and the enumerator are pull-based. A directory is listed or a
\* unit loaded only while a next() of the consumer is outstanding (one more
\* pull than results, generator not closed); when find loads a unit, every
\* accepted symbol of the units loaded before has been handed over; once the
\* consumer has closed the generator nothing is listed or loaded any more.
C8_PullBased ==
    [][/\ work' # work => (~closed /\ pulls = Len(out) + 1)
       /\ attempts' # attempts => out = AcceptedOfAll(loaded, cond)
       /\ closed => (work' = work /\ out' = out)]_vars

\* C8 witness: the consumer stopped after its first result while names were
\* left to enumerate (the root's listing was not finished), and no further
\* work was done: the one unit loaded is all the work after the listings.
C8_Witness ==
    /\ closed /\ fpc = "closed" /\ Len(out) = 1 /\ pulls = 1
    /\ Len(attempts) = 1
    /\ (listing # <<>> \/ ppos < Len(primary(pathlist(paths0), fprefix)))

\* C9: the results of find are exactly, in order, the contributions of the
\* units that loaded: for each name of the unit's export list (dir() when it
\* declares none) whose lookup succeeds and that the condition accepts, the
\* pair of the name and the value stored on the module; a name whose lookup or
\* filter raises is skipped alone. While a unit is being processed, its first
\* ki names have contributed. This holds under both strategies.
C9_ExactPairs ==
    /\ loaded = <<>> => out = <<>>
    /\ loaded # <<>> =>
          LET last == loaded[Len(loaded)]
          IN  out = AcceptedOfAll(SubSeq(loaded, 1, Len(loaded) - 1), cond)
                    \o AcceptedUpTo(last, cond, ExportedNames(local(last)), ki)
    /\ fpc \in {"done", "raised", "iter", "load"} => out = AcceptedOfAll(loaded, cond)
    /\ \A i \in 1..Len(out) : getattr(local(out[i][1]), out[i][2]) = Ret(out[i][3])

\* C9 witness: find has ended having loaded a unit with an export list, in
\* which one name was missing and skipped and a later name was yielded, in a
\* run that switched to the fallback, and a unit without an export list.
C9_Witness ==
    /\ fpc = "done" /\ switches = 1
    /\ \E i \in 1..Len(loaded) : local(loaded[i]) = U_b
    /\ \E i \in 1..Len(loaded) : local(loaded[i]) = U_a
    /\ \E i \in 1..Len(out) : local(out[i][1]) = U_b /\ out[i][2] = k_K
    /\ getattr(U_b, k_z).exc = "AttributeError"

\* C10: the switch to the fallback happens at most once and restarts from
\* scratch: after it, the primary strategy is never resumed, and the names
\* enumerated are the nprim names the primary strategy had yielded followed by
\* the breadth-first walk from the original roots and prefix (all of it once
\* the enumerator has ended).
C10_SwitchOnceRestart ==
    /\ switches <= 1
    /\ IsPrefix(SubSeq(names, 1, nprim), PrimaryNames) /\ nprim <= Len(names)
    /\ switches = 0 => nprim = Len(names)
    /\ switches = 1 =>
          /\ epc # "primary"
          /\ IsPrefix(SubSeq(names, nprim + 1, Len(names)),
                      Walk(OriginalQueue, PathPredicate))
          /\ epc \in {"done", "raised"} =>
                names = SubSeq(PrimaryNames, 1, nprim)
                        \o Walk(OriginalQueue, PathPredicate)

\* C10 witness: the enumerator has ended after the primary strategy raised
\* having yielded at least one name, and a name was enumerated twice.
C10_Witness ==
    /\ epc = "done" /\ switches = 1 /\ nprim >= 1
    /\ \E i \in 1..nprim : \E j \in (nprim + 1)..Len(names) : names[i] = names[j]

-----------------------------------------------------------------------------
(* One call get(gspec, gtable).                                            *)

\* The characters of the spec strings of the model.
Alphabet == {"a", "b", ".", ":"}

SpecStrings == UNION {[1..n -> Alphabet] : n \in 0..MaxSpecLen}

\* The translation tables of the model: none, an alias, two names swapped
\* (a table applied twice would undo it), an alias for a dotted path.
NoTable    == [x \in {} |-> <<>>]
AliasTable == (<<"a">> :> <<"b">>)
SwapTable  == (<<"a">> :> <<"b">>) @@ (<<"b">> :> <<"a">>)
PathTable  == (<<"a">> :> <<"b", ".", "a">>)
Tables     == {NoTable, AliasTable, SwapTable, PathTable}

\* translate.get(seg, seg)
translate_get(translate, seg) ==
    IF seg \in DOMAIN translate THEN translate[seg] ELSE seg

\* The modules import_module knows in this call: a, b and b.a. An empty name
\* is a ValueError, a name starting with '.' (a relative import without a
\* package) a TypeError, any other unknown name an ImportError.
get_import(name) ==
    CASE name = <<"a">>           -> Ret("M_a")
      [] name = <<"b">>           -> Ret("M_b")
      [] name = <<"b", ".", "a">> -> Ret("M_ba")
      [] name = <<>>              -> Raise("ValueError")
      [] OTHER -> IF startswith(name, <<".">>) THEN Raise("TypeError")
                  ELSE Raise("ImportError")

\* The attributes of the objects reachable from these modules.
obj_getattr(obj, name) ==
    CASE obj = "M_a"  /\ name = <<"a">> -> Ret("O1")
      [] obj = "M_a"  /\ name = <<"b">> -> Ret("O2")
      [] obj = "M_b"  /\ name = <<"a">> -> Ret("M_ba")
      [] obj = "M_ba" /\ name = <<"b">> -> Ret("O3")
      [] obj = "O1"   /\ name = <<"a">> -> Ret("O1")
      [] obj = "O1"   /\ name = <<"b">> -> Ret("O3")
      [] OTHER -> Raise("AttributeError")

\* A variant of line 161 that splits on every ':' (spec.split(':')).
spec_parts_every(spec) == split(spec, ":")

\* Line 161: parts = spec.split(':', 1)
spec_parts(spec) == split1(spec, ":")

\* Line 162: modname
translated(part, translate) ==
    LET segs == split(part, ".")
    IN  join(".", [i \in 1..Len(segs) |-> translate_get(translate, segs[i])])

\* Lines 164-165: the names of the item path, none when it is absent or empty.
item_names(parts) ==
    IF Len(parts) > 1 /\ parts[2] # <<>> THEN split(parts[2], ".") ELSE <<>>

\* A variant of line 166 that passes a default (getattr(item, name, item)),
\* so that a missing attribute gives the object walked so far.
lookup_default(item, name) ==
    IF obj_getattr(item, name).exc = "none" THEN obj_getattr(item, name)
    ELSE Ret(item)

\* Line 166: getattr(item, name)
lookup(item, name) == obj_getattr(item, name)

GetInit ==
    /\ gspec \in SpecStrings
    /\ gtable \in Tables
    /\ gpc = "call" /\ gparts = <<>> /\ gmodname = None /\ gitem = None
    /\ gnames = <<>> /\ gi = 0 /\ glookups = <<>> /\ gresult = None
    /\ gerror = "none"

\* Lines 161-162.
GetSplit ==
    /\ gpc = "call"
    /\ gparts' = spec_parts(gspec)
    /\ gmodname' = translated(spec_parts(gspec)[1], gtable)
    /\ gpc' = "import"
    /\ UNCHANGED <<gspec, gtable, gitem, gnames, gi, glookups, gresult, gerror>>
    /\ UNCHANGED <<findVars, condVars>>

\* Lines 163-165: the module is imported; an error leaves get.
GetImport ==
    /\ gpc = "import"
    /\ glookups' = Append(glookups, [op |-> "import", obj |-> None, name |-> gmodname])
    /\ LET r == get_import(gmodname)
       IN  IF r.exc # "none"
           THEN /\ gpc' = "raised" /\ gerror' = r.exc
                /\ UNCHANGED <<gitem, gnames>>
           ELSE /\ gitem' = r.val
                /\ gnames' = item_names(gparts)
                /\ gpc' = "walk"
                /\ UNCHANGED gerror
    /\ UNCHANGED <<gspec, gtable, gparts, gmodname, gi, gresult>>
    /\ UNCHANGED <<findVars, condVars>>

\* Lines 165-166: one attribute lookup; an error leaves get.
GetAttr ==
    /\ gpc = "walk" /\ gi < Len(gnames)
    /\ glookups' = Append(glookups,
                          [op |-> "getattr", obj |-> gitem, name |-> gnames[gi + 1]])
    /\ LET r == lookup(gitem, gnames[gi + 1])
       IN  IF r.exc # "none"
           THEN /\ gpc' = "raised" /\ gerror' = r.exc
                /\ UNCHANGED <<gitem, gi>>
           ELSE /\ gitem' = r.val
                /\ gi' = gi + 1
                /\ UNCHANGED <<gpc, gerror>>
    /\ UNCHANGED <<gspec, gtable, gparts, gmodname, gnames, gresult>>
    /\ UNCHANGED <<findVars, condVars>>

\* Line 167.
GetReturn ==
    /\ gpc = "walk" /\ gi = Len(gnames)
    /\ gresult' = gitem
    /\ gpc' = "returned"
    /\ UNCHANGED <<gspec, gtable, gparts, gmodname, gitem, gnames, gi, glookups,
                   gerror>>
    /\ UNCHANGED <<findVars, condVars>>

FindIdle ==
    /\ files = {} /\ dirs = {} /\ listrev = FALSE
    /\ raises = [u \in RaisingUnits |-> "none"]
    /\ failAt = -1 /\ paths0 = [isstr |-> TRUE, val |-> Root]
    /\ cond = "Condition" /\ prefix0 = <<>>
    /\ fpc = "idle" /\ fprefix = None /\ modname = None /\ keys = <<>> /\ ki = 0
    /\ epc = "idle" /\ econd = None /\ ppos = 0 /\ nprim = 0
    /\ queue = <<>> /\ curprefix = None /\ curpath = None /\ listing = <<>>
    /\ names = <<>> /\ attempts = <<>> /\ loaded = <<>> /\ out = <<>>
    /\ work = <<>> /\ pulls = 0 /\ closed = FALSE /\ error = "none"
    /\ switches = 0

GetNext ==
    \/ GetSplit
    \/ GetImport
    \/ GetAttr
    \/ GetReturn

InitGet == FindIdle /\ GetInit /\ CondIdle

SpecGet == InitGet /\ [][GetNext]_vars

-----------------------------------------------------------------------------
(* Properties of get.                                                      *)

HasColon(spec) == Positions(spec, ":") # {}

\* The module path and the item path of a spec: what precedes and what
\* follows its first ':'.
ModulePath(spec) ==
    IF HasColon(spec) THEN SubSeq(spec, 1, Min(Positions(spec, ":")) - 1) ELSE spec
ItemPath(spec) ==
    IF HasColon(spec) THEN SubSeq(spec, Min(Positions(spec, ":")) + 1, Len(spec))
    ELSE <<>>

\* The module named by translating each segment once.
TargetModule(spec, t) ==
    LET segs == split(ModulePath(spec), ".")
    IN  join(".", [i \in 1..Len(segs) |->
                       IF segs[i] \in DOMAIN t THEN t[segs[i]] ELSE segs[i]])

\* Successive attribute lookups from obj.
RECURSIVE Lookups(_, _)
Lookups(obj, ns) ==
    IF ns = <<>> THEN Ret(obj)
    ELSE LET r == obj_getattr(obj, Head(ns))
         IN  IF r.exc # "none" THEN r ELSE Lookups(r.val, Tail(ns))

\* What the resolution of spec under table t gives.
Resolution(spec, t) ==
    LET m == get_import(TargetModule(spec, t))
    IN  IF m.exc # "none" THEN m
        ELSE IF ItemPath(spec) = <<>> THEN m
        ELSE Lookups(m.val, split(ItemPath(spec), "."))

\* The spec with its module path already translated.
TranslatedSpec(spec, t) ==
    TargetModule(spec, t) \o (IF HasColon(spec) THEN <<":">> \o ItemPath(spec) ELSE <<>>)

\* The outcome of the call, once it has ended.
Outcome == IF gpc = "raised" THEN Raise(gerror) ELSE Ret(gresult)

\* The logged operation succeeds.
Succeeds(e) ==
    IF e.op = "import" THEN get_import(e.name).exc = "none"
    ELSE obj_getattr(e.obj, e.name).exc = "none"

\* C6: get splits the spec on its first ':' only, imports exactly the module
\* named by translating every segment of the module path once (item segments
\* never), and returns the result of the successive attribute lookups of the
\* item path from that module, or the module itself when the item path is
\* absent or empty; so get(spec, t) gives what get of the translated spec gives
\* under the empty table.
C6_Resolution ==
    gpc \in {"returned", "raised"} =>
        /\ glookups[1] = [op |-> "import", obj |-> None,
                          name |-> TargetModule(gspec, gtable)]
        /\ \A i \in 2..Len(glookups) : glookups[i].op = "getattr"
        /\ Outcome = Resolution(gspec, gtable)
        /\ Outcome = Resolution(TranslatedSpec(gspec, gtable), NoTable)
        /\ (gpc = "returned" /\ ItemPath(gspec) = <<>>) =>
               gresult = get_import(TargetModule(gspec, gtable)).val

\* C6 witness: a call has returned the result of an attribute lookup on a
\* module whose name the table changed, for a spec with a second ':'-free item
\* path; and the table is the one that swaps a and b.
C6_Witness ==
    /\ gpc = "returned" /\ gtable = SwapTable
    /\ gmodname # ModulePath(gspec)
    /\ Len(gnames) >= 1 /\ gresult = "M_ba"

\* C7: get is strict. An error of the import or of a lookup ends the call at
\* that point: the call is in error exactly when its last operation failed, it
\* then has returned nothing, every operation before the last one succeeded (so
\* nothing is looked up after a failure) and exactly one import was attempted.
C7_Strict ==
    /\ gerror # "none" <=> gpc = "raised"
    /\ gpc = "raised" => gresult = None
    /\ \A i \in 1..(Len(glookups) - 1) : Succeeds(glookups[i])
    /\ glookups # <<>> =>
          /\ glookups[1].op = "import"
          /\ \A i \in 2..Len(glookups) : glookups[i].op = "getattr"
          /\ (~Succeeds(glookups[Len(glookups)])) <=> gpc = "raised"
    /\ gpc = "returned" => Len(glookups) = 1 + Len(gnames)

\* C7 witness: a lookup failed at a segment that is not the last one of the
\* item path, after the import had succeeded.
C7_Witness ==
    /\ gpc = "raised" /\ gerror = "AttributeError"
    /\ gi + 1 < Len(gnames)
    /\ Len(glookups) = gi + 2

-----------------------------------------------------------------------------
(* One call IsSubclass(cbase)(modname, cname, cthing).                      *)

CondInit ==
    /\ cbase \in {"Base", "Picky", "Int1"}
    /\ cname \in {k_K, k_P, k_x, k_z, <<"_">>, <<>>}
    /\ cthing \in Values
    /\ cpc = "call" /\ cresult = None

\* Lines 62-66.
CondCall ==
    /\ cpc = "call"
    /\ cresult' = IsSubclass_call(cbase, U_a, cname, cthing)
    /\ cpc' = "done"
    /\ UNCHANGED <<cbase, cname, cthing>>
    /\ UNCHANGED <<findVars, getVars>>

CondNext == CondCall

InitCond == FindIdle /\ GetIdle /\ CondInit

SpecCond == InitCond /\ [][CondNext]_vars

\* C5 (as claimed): IsSubclass(base) accepts exactly when the name does not
\* start with an underscore and the value is a type that is a subclass of
\* base; when the subclass check raises, the result is false, not an error.
C5_IsSubclassAccepts ==
    cpc = "done" =>
        cresult = Ret(/\ ~startswith(cname, <<"_">>)
                      /\ isinstance_type(cthing)
                      /\ issubclass(cthing, cbase).exc = "none"
                      /\ issubclass(cthing, cbase).val)

====
